---- MODULE Spec2Model ----
(***************************************************************************)
(* State-machine model of the SaaS user-management orchestrator:           *)
(* main (src/main.py), the three workflows of SaaSAutomationOrchestrator,  *)
(* the browser handler (src/browser_automation.py), the AI agent           *)
(* (src/ai_agent.py) and the data processor (src/data_processor.py).       *)
(* The Page Driver (Playwright) and the Oracle (OpenAI) are the            *)
(* environment: every call to them has a nondeterministic outcome.         *)
(***************************************************************************)
EXTENDS Integers, Sequences, FiniteSets, TLC

VARIABLES
    action,            \* args.action
    saas_id,           \* args.saas
    user_email,        \* TRUE iff --user-email was given
    user_name,         \* TRUE iff --user-name was given
    user_role,         \* TRUE iff --user-role was given
    mpc,               \* position of main
    pc,                \* position of the running workflow
    calls,             \* Page Driver / Oracle / Data Sink calls issued, in order
    before_html,       \* local before_html of provision_user / deprovision_user
    add_user_success,  \* local add_user_success of provision_user
    ui,                \* latest value returned by find_ui_elements
    verdict,           \* what the oracle answered to validate_action_success
    result,            \* value returned by the workflow
    users,             \* list returned by scrape_users
    raw_users,         \* local raw_users of scrape_users
    printed,           \* message main printed
    raised,            \* TRUE iff an exception left main's try block
    cleanups,          \* number of times orchestrator.cleanup ran
    dp_op,             \* DataProcessor method under call ("none": no call)
    dp_in,             \* its argument
    dp_file,           \* what save_to_json / save_to_csv left in the file
    dp_out,            \* the value it returned
    inst,              \* the scrape_users instances run side by side
    files,             \* the files of logs_dir and data_output_dir
    loop,              \* the instance that holds the thread of the event loop
    handler,           \* playwright, browser, context, page of the handler
    hpc,               \* position of the handler in initialize_browser / cleanup
    released           \* close / stop calls issued by cleanup, in order

vars == <<action, saas_id, user_email, user_name, user_role, mpc, pc, calls,
          before_html, add_user_success, ui, verdict, result, users, raw_users,
          printed, raised, cleanups, dp_op, dp_in, dp_file, dp_out, inst,
          files, loop, handler, hpc, released>>

\* the state of workflow instances run side by side
concvars == <<inst, files, loop>>
\* the state of a DataProcessor called on its own
dpvars == <<dp_op, dp_in, dp_file, dp_out>>
\* the state of a BrowserAutomationHandler followed from construction to cleanup
brvars == <<handler, hpc, released>>
\* what the steps of main and of the workflows leave alone
aux == <<dpvars, concvars, brvars>>

-----------------------------------------------------------------------------
(* Bounds of the model. *)

\* confidence levels an oracle candidate may carry: 0..MaxConf stands for [0,1]
MaxConf == 1
\* longest list of raw entries the oracle returns for an extraction
MaxRaw == 3
\* longest list of raw entries given to process_raw_user_data called on its own
MaxEntries == 2
\* longest list of records given to save_to_json, save_to_csv, compare_datasets
MaxRecs == 2

-----------------------------------------------------------------------------
(* config.py *)

Actions == {"scrape", "provision", "deprovision"}

\* user_form_selectors of each portal, in dict order
SAAS_CONFIGS ==
    [dropbox |-> [name |-> "Dropbox Business",
                  user_form_selectors |-> <<"email", "name", "role">>],
     notion  |-> [name |-> "Notion Workspace",
                  user_form_selectors |-> <<"email", "role">>]]

\* portal identifiers the command line may carry; "slack" has no configuration
SaasIds == {"dropbox", "notion", "slack"}

-----------------------------------------------------------------------------
(* Text as sequences of characters. *)

LowerChars == <<"a","b","c","d","e","f","g","h","i","j","k","l","m",
                "n","o","p","q","r","s","t","u","v","w","x","y","z">>
UpperChars == <<"A","B","C","D","E","F","G","H","I","J","K","L","M",
                "N","O","P","Q","R","S","T","U","V","W","X","Y","Z">>

IsSpace(c) == c \in {" ", "\n", "\t"}

\* str.upper on one character
UpperChar(c) ==
    IF \E i \in 1..Len(LowerChars) : LowerChars[i] = c
    THEN UpperChars[CHOOSE i \in 1..Len(LowerChars) : LowerChars[i] = c]
    ELSE c

\* str.upper
Upper(s) == [i \in 1..Len(s) |-> UpperChar(s[i])]

\* str.strip
Strip(s) ==
    IF \A i \in 1..Len(s) : IsSpace(s[i])
    THEN <<>>
    ELSE LET first == CHOOSE i \in 1..Len(s) :
                         ~IsSpace(s[i]) /\ \A j \in 1..(i-1) : IsSpace(s[j])
             last  == CHOOSE i \in 1..Len(s) :
                         ~IsSpace(s[i]) /\ \A j \in (i+1)..Len(s) : IsSpace(s[j])
         IN  SubSeq(s, first, last)

\* Python's "needle in haystack" on strings
Contains(haystack, needle) ==
    \E i \in 1..(Len(haystack) - Len(needle) + 1) :
        SubSeq(haystack, i, i + Len(needle) - 1) = needle

-----------------------------------------------------------------------------
(* Environment: what the Oracle and the Page Driver may answer. *)

\* A call issued to a collaborator.  k: the operation; task: what it was for;
\* ok: whether it succeeded; sel: where a locator came from; resp/conf: the
\* oracle's answer to a locator request.
Ev(k, task, ok, sel, resp, conf) ==
    [k |-> k, task |-> task, ok |-> ok, sel |-> sel, resp |-> resp, conf |-> conf]

\* Outcomes of the chat-completion call of find_ui_elements:
\*   fail      the call raised, or the message carried no function_call
\*   empty     the arguments carried no "elements", or an empty object
\*   noprimary "elements" is an object without "primary_selector"
\*   nonobject "elements" is a truthy value that is no object (e.g. a number)
\*   ok        "elements" holds a primary_selector; its confidence is a level
\*             of 0..MaxConf, or -1 when it is missing or outside [0,1]
FindOutcomes ==
    {[resp |-> r, conf |-> 0] : r \in {"fail", "empty", "noprimary", "nonobject"}}
    \cup {[resp |-> "ok", conf |-> c] : c \in -1..MaxConf}

\* Texts the validation oracle may answer (message.content)
ValidateTexts ==
    { <<"S","U","C","C","E","S","S">>,
      <<"s","u","c","c","e","s","s">>,
      <<" ","S","u","c","c","e","s","s","\n">>,
      <<"F","A","I","L","E","D">>,
      <<"F","A","I","L","E","D"," ","-"," ","n","o"," ","n","e","w"," ",
        "r","o","w"," ","a","p","p","e","a","r","e","d">>,
      <<"U","n","s","u","c","c","e","s","s","f","u","l">>,
      <<"n","o"," ","s","u","c","c","e","s","s">>,
      <<>> }

\* Outcomes of the chat-completion call of validate_action_success
ValidateOutcomes ==
    {[fail |-> TRUE, text |-> <<>>]}
    \cup {[fail |-> FALSE, text |-> t] : t \in ValidateTexts}

-----------------------------------------------------------------------------
(* ai_agent.py *)

\* AIAgent.find_ui_elements: the value handed back to the workflow
find_ui_elements(o) ==
    IF o.resp = "fail" THEN [resp |-> "empty", conf |-> 0] ELSE o

\* the success token of validate_action_success
SuccessToken == <<"S","U","C","C","E","S","S">>

\* AIAgent.validate_action_success: the boolean handed back to the workflow
validate_action_success(o) ==
    IF o.fail THEN FALSE
    ELSE Contains(Upper(Strip(o.text)), SuccessToken)

-----------------------------------------------------------------------------
(* main.py: the tests the workflows make on an oracle locator value *)

\* variant: only the truthiness of the value is tested
HasPrimary_Truthy(u) == u.resp \in {"ok", "noprimary"}

\* `x and "primary_selector" in x`
HasPrimary(u) == u.resp = "ok"

\* the membership test (or the subscript) raises TypeError on a non-object
RaisesOnUse(u) == u.resp = "nonobject"

NoUi == [resp |-> "none", conf |-> 0]

NoVerdict == [called |-> FALSE, fail |-> FALSE, text |-> <<>>]

-----------------------------------------------------------------------------
(* Initial state: main has parsed its arguments and constructed the        *)
(* orchestrator (main.py line 340).                                         *)

\* no call of a DataProcessor method has returned
Pending == [done |-> FALSE, val |-> <<>>]
Returns(v) == [done |-> TRUE, val |-> v]

\* the files a scrape writes: take_screenshot's logs/<saas_id>_users_page.png
\* and the data processor's scraped_data/<saas_id>_users.json and .csv
FileKinds == {"users_page.png", "users.json", "users.csv"}
FileNames == {[saas |-> sid, kind |-> k] : sid \in {"dropbox", "notion"}, k \in FileKinds}
NoContent == [by |-> 0, recs |-> <<>>]
NoFiles == [f \in FileNames |-> NoContent]

\* no file was written
NoFile == [format |-> "unset", rows |-> <<>>]

\* browser_automation.py 35-51: the resources of the handler, in the order
\* initialize_browser opens them
Resources == <<"playwright", "browser", "context", "page">>
\* browser_automation.py 15-19: __init__ sets the four fields to None
NoHandler == [r \in {Resources[i] : i \in 1..Len(Resources)} |-> "None"]

Init ==
    /\ action \in Actions
    \* the configured portals differ in their form fields only, which the
    \* provision branch alone reads
    /\ saas_id \in (IF action = "provision" THEN SaasIds ELSE {"dropbox", "slack"})
    /\ user_email \in BOOLEAN
    \* --user-name and --user-role are read by the provision branch only
    /\ user_name \in (IF action = "provision" THEN BOOLEAN ELSE {FALSE})
    /\ user_role \in (IF action = "provision" THEN BOOLEAN ELSE {FALSE})
    /\ mpc = "start"
    /\ pc = "idle"
    /\ calls = <<>>
    /\ before_html = "unset"
    /\ add_user_success = FALSE
    /\ ui = NoUi
    /\ verdict = NoVerdict
    /\ result = "none"
    /\ users = <<>>
    /\ raw_users = <<>>
    /\ printed = "none"
    /\ raised = FALSE
    /\ cleanups = 0
    /\ dp_op = "none"
    /\ dp_in = <<>>
    /\ dp_file = NoFile
    /\ dp_out = Pending
    /\ inst = <<>>
    /\ files = NoFiles
    /\ loop = 0
    /\ handler = NoHandler
    /\ hpc = "new"
    /\ released = <<>>

argv == <<action, saas_id, user_email, user_name, user_role>>
locals == <<before_html, add_user_success, ui, verdict>>
mainvars == <<mpc, printed, raised, cleanups>>

Running == mpc = "op"

\* `return r` of provision_user / deprovision_user / scrape_users
Return(r) ==
    /\ pc' = "returned"
    /\ result' = r

\* the workflow appends one call and moves on
Step(ev, next) ==
    /\ calls' = Append(calls, ev)
    /\ pc' = next
    /\ UNCHANGED result

\* the workflow appends one call and returns
StepReturn(ev, r) ==
    /\ calls' = Append(calls, ev)
    /\ Return(r)

\* the failure value of the running workflow: [] for scrape_users, else False
Failure == IF action = "scrape" THEN "[]" ELSE "False"

-----------------------------------------------------------------------------
(* main.py: main *)

\* lines 342-347: await orchestrator.initialize()
MainInitialize ==
    /\ mpc = "start"
    /\ \E init_success \in BOOLEAN :
          IF init_success
          THEN /\ mpc' = "dispatch"
               /\ UNCHANGED printed
          ELSE /\ mpc' = "finally"
               /\ printed' = "init_failed"
    /\ UNCHANGED <<argv, pc, calls, locals, result, users, raw_users, aux, raised, cleanups>>

\* variant: the early return for a missing --user-email skips the finally block
MainDispatch_ReturnSkipsFinally ==
    /\ mpc = "dispatch"
    /\ IF action \in {"provision", "deprovision"} /\ ~user_email
       THEN /\ mpc' = "exit"
            /\ printed' = "need_email"
            /\ UNCHANGED pc
       ELSE /\ mpc' = "op"
            /\ pc' = "check"
            /\ UNCHANGED printed
    /\ UNCHANGED <<argv, calls, locals, result, users, raw_users, aux, raised, cleanups>>

\* lines 354-393: the branch on args.action, up to the call of the workflow
MainDispatch ==
    /\ mpc = "dispatch"
    /\ IF action \in {"provision", "deprovision"} /\ ~user_email
       THEN /\ mpc' = "finally"
            /\ printed' = "need_email"
            /\ UNCHANGED pc
       ELSE /\ mpc' = "op"
            /\ pc' = "check"
            /\ UNCHANGED printed
    /\ UNCHANGED <<argv, calls, locals, result, users, raw_users, aux, raised, cleanups>>

\* variant: the scrape branch tests that a list came back, not that it holds records
MainReport_AnyListIsSuccess ==
    /\ mpc = "op"
    /\ pc = "returned"
    /\ printed' = CASE action = "scrape" ->
                         IF result # "none" THEN "scrape_ok" ELSE "scrape_failed"
                    [] action = "provision" ->
                         IF result = "True" THEN "provision_ok" ELSE "provision_failed"
                    [] action = "deprovision" ->
                         IF result = "True" THEN "deprovision_ok" ELSE "deprovision_failed"
    /\ mpc' = "finally"
    /\ UNCHANGED <<argv, pc, calls, locals, result, users, raw_users, aux, raised, cleanups>>

\* lines 357-364, 381-384, 394-397: what main prints once the workflow returned
MainReport ==
    /\ mpc = "op"
    /\ pc = "returned"
    /\ printed' = CASE action = "scrape" ->
                         IF users # <<>> THEN "scrape_ok" ELSE "scrape_failed"
                    [] action = "provision" ->
                         IF result = "True" THEN "provision_ok" ELSE "provision_failed"
                    [] action = "deprovision" ->
                         IF result = "True" THEN "deprovision_ok" ELSE "deprovision_failed"
    /\ mpc' = "finally"
    /\ UNCHANGED <<argv, pc, calls, locals, result, users, raw_users, aux, raised, cleanups>>

\* an exception leaves the try block: a cancellation or interrupt delivered at
\* an await (initialize or the workflow), or print raising after the return
MainRaise ==
    /\ mpc \in {"start", "op"}
    /\ mpc' = "finally"
    /\ raised' = TRUE
    /\ UNCHANGED <<argv, pc, calls, locals, result, users, raw_users, aux, printed, cleanups>>

\* lines 399-401: finally: await orchestrator.cleanup()
MainCleanup ==
    /\ mpc = "finally"
    /\ cleanups' = cleanups + 1
    /\ mpc' = "exit"
    /\ UNCHANGED <<argv, pc, calls, locals, result, users, raw_users, aux, printed, raised>>

\* user_details of lines 373-377: every key is present, an option that was
\* not given is None
user_details ==
    [email |-> "str",
     name  |-> IF user_name THEN "str" ELSE "None",
     role  |-> IF user_role THEN "str" ELSE "None"]

-----------------------------------------------------------------------------
(* main.py: the steps the three workflows share *)

\* variant: the portal identifier is not looked up before the login
CheckConfig_NoLookup ==
    /\ Running /\ pc = "check"
    /\ pc' = "login" /\ UNCHANGED result
    /\ UNCHANGED <<argv, mainvars, calls, locals, users, raw_users, aux>>

\* `if saas_id not in SAAS_CONFIGS: return []/False`
CheckConfig ==
    /\ Running /\ pc = "check"
    /\ IF saas_id \notin DOMAIN SAAS_CONFIGS
       THEN Return(Failure)
       ELSE pc' = "login" /\ UNCHANGED result
    /\ UNCHANGED <<argv, mainvars, calls, locals, users, raw_users, aux>>

\* variant: a failed login starts the workflow over
Login_RetryOnFailure ==
    /\ Running /\ pc = "login"
    /\ \E o \in {"ok", "still_login", "error"} :
          IF o = "ok"
          THEN Step(Ev("login", "login", TRUE, "static", o, 0), "nav")
          ELSE pc' = "check" /\ UNCHANGED <<calls, result>>
    /\ UNCHANGED <<argv, mainvars, locals, users, raw_users, aux>>

\* variant: the value login_to_saas returns is not tested
Login_ResultIgnored ==
    /\ Running /\ pc = "login"
    /\ \E o \in {"ok", "still_login", "error"} :
          IF o = "ok"
          THEN Step(Ev("login", "login", TRUE, "static", o, 0), "nav")
          ELSE /\ calls' = calls \o <<Ev("login", "login", FALSE, "static", o, 0),
                                      Ev("screenshot", "login", TRUE, "-", "-", 0)>>
               /\ pc' = "nav"
               /\ UNCHANGED result
    /\ UNCHANGED <<argv, mainvars, locals, users, raw_users, aux>>

\* browser_handler.login_to_saas and the test of its result.  The url still
\* holds "login" (still_login) or a driver call raised (error): a screenshot
\* is taken and False comes back.
Login ==
    /\ Running /\ pc = "login"
    /\ \E o \in {"ok", "still_login", "error"} :
          IF o = "ok"
          THEN Step(Ev("login", "login", TRUE, "static", o, 0), "nav")
          ELSE /\ calls' = calls \o <<Ev("login", "login", FALSE, "static", o, 0),
                                      Ev("screenshot", "login", TRUE, "-", "-", 0)>>
               /\ Return(Failure)
    /\ UNCHANGED <<argv, mainvars, locals, users, raw_users, aux>>

\* the first step of each workflow after navigation
AfterNav ==
    CASE action = "scrape"      -> "s_content"
      [] action = "provision"   -> "p_before"
      [] action = "deprovision" -> "d_before"

\* variant: the value navigate_to_users_page returns is not tested
Navigate_ResultIgnored ==
    /\ Running /\ pc = "nav"
    /\ \E nav_success \in BOOLEAN :
          Step(Ev("navigate", "users_page", nav_success, "static", "-", 0), AfterNav)
    /\ UNCHANGED <<argv, mainvars, locals, users, raw_users, aux>>

\* browser_handler.navigate_to_users_page and the test of its result
Navigate ==
    /\ Running /\ pc = "nav"
    /\ \E nav_success \in BOOLEAN :
          IF nav_success
          THEN Step(Ev("navigate", "users_page", TRUE, "static", "-", 0), AfterNav)
          ELSE StepReturn(Ev("navigate", "users_page", FALSE, "static", "-", 0), Failure)
    /\ UNCHANGED <<argv, mainvars, locals, users, raw_users, aux>>

\* browser_handler.extract_page_content: the markup, or "" when page.content raised
Snapshot(task, markup) == Ev("snapshot", task, markup # "", "-", "-", 0)

Markups == {"", "html"}

\* browser_handler.click_element on a locator
Click(task, sel, conf, ok) == Ev("click", task, ok, sel, "-", conf)

\* ai_agent.find_ui_elements for a task, with the oracle's outcome o
Find(task, o) == Ev("oracle", task, o.resp = "ok", "-", o.resp, o.conf)

\* asyncio.sleep
Sleep(task) == Ev("sleep", task, TRUE, "-", "-", 0)

-----------------------------------------------------------------------------
(* main.py: provision_user, lines 139-220 *)

\* line 140: before_html = extract_page_content(); its value is not tested
ProvisionBefore ==
    /\ Running /\ pc = "p_before"
    /\ \E m \in Markups :
          /\ before_html' = m
          /\ Step(Snapshot("before", m), "p_add_static")
    /\ UNCHANGED <<argv, mainvars, add_user_success, ui, verdict, users, raw_users, aux>>

\* variant: the oracle is asked whatever the static click returned
ProvisionAddStatic_AlwaysFallback ==
    /\ Running /\ pc = "p_add_static"
    /\ \E ok \in BOOLEAN :
          /\ add_user_success' = ok
          /\ Step(Click("add_user", "static", MaxConf, ok), "p_fallback_page")
    /\ UNCHANGED <<argv, mainvars, before_html, ui, verdict, users, raw_users, aux>>

\* lines 144-147: click the profile's add_user_button
ProvisionAddStatic ==
    /\ Running /\ pc = "p_add_static"
    /\ \E ok \in BOOLEAN :
          /\ add_user_success' = ok
          /\ Step(Click("add_user", "static", MaxConf, ok),
                  IF ok THEN "p_settle_form" ELSE "p_fallback_page")
    /\ UNCHANGED <<argv, mainvars, before_html, ui, verdict, users, raw_users, aux>>

\* line 148: page_content = extract_page_content()
ProvisionFallbackPage ==
    /\ Running /\ pc = "p_fallback_page"
    /\ \E m \in Markups : Step(Snapshot("add_user", m), "p_fallback_oracle")
    /\ UNCHANGED <<argv, mainvars, locals, users, raw_users, aux>>

\* lines 149-154 and 159-161: ask the oracle for the add-user button; without
\* a primary_selector no click is made and add_user_success is still False
ProvisionFallbackOracle ==
    /\ Running /\ pc = "p_fallback_oracle"
    /\ \E o \in FindOutcomes :
          LET u == find_ui_elements(o) IN
          /\ ui' = u
          /\ calls' = Append(calls, Find("add_user", o))
          /\ IF RaisesOnUse(u) THEN Return("False")
             ELSE IF HasPrimary(u) THEN pc' = "p_fallback_click" /\ UNCHANGED result
             ELSE Return("False")
    /\ UNCHANGED <<argv, mainvars, before_html, add_user_success, verdict, users, raw_users, aux>>

\* variant: a failed fallback click asks the oracle again
ProvisionFallbackClick_Retry ==
    /\ Running /\ pc = "p_fallback_click"
    /\ \E ok \in BOOLEAN :
          /\ add_user_success' = ok
          /\ Step(Click("add_user", "oracle", ui.conf, ok),
                  IF ok THEN "p_settle_form" ELSE "p_fallback_page")
    /\ UNCHANGED <<argv, mainvars, before_html, ui, verdict, users, raw_users, aux>>

\* lines 155-161: click the oracle's primary_selector
ProvisionFallbackClick ==
    /\ Running /\ pc = "p_fallback_click"
    /\ \E ok \in BOOLEAN :
          /\ add_user_success' = ok
          /\ IF ok
             THEN Step(Click("add_user", "oracle", ui.conf, TRUE), "p_settle_form")
             ELSE StepReturn(Click("add_user", "oracle", ui.conf, FALSE), "False")
    /\ UNCHANGED <<argv, mainvars, before_html, ui, verdict, users, raw_users, aux>>

\* line 164: asyncio.sleep(2)
ProvisionSettleForm ==
    /\ Running /\ pc = "p_settle_form"
    /\ Step(Sleep("form"), "p_fill")
    /\ UNCHANGED <<argv, mainvars, locals, users, raw_users, aux>>

\* lines 167-170: form_data, one entry per field of the profile's field map
\* that is a key of user_details, in the order of the map
form_data(details) ==
    LET fields == SAAS_CONFIGS[saas_id].user_form_selectors
        kept   == SelectSeq(fields, LAMBDA f : f \in DOMAIN details)
    IN  [i \in 1..Len(kept) |-> [field |-> kept[i], value |-> details[kept[i]]]]

\* browser_handler.fill_form: page.fill per entry, in order, until one raises;
\* page.fill raises on a value of None.  n fills succeed.
FillCalls(form, n) ==
    [i \in 1..(IF n < Len(form) THEN n + 1 ELSE n) |->
        Ev("fill", form[i].field, i <= n, "static", form[i].value, 0)]

\* lines 173-176: fill the form, return False when fill_form failed
ProvisionFill ==
    /\ Running /\ pc = "p_fill"
    /\ LET form == form_data(user_details) IN
       \E n \in 0..Len(form) :
          /\ \A i \in 1..n : form[i].value = "str"
          /\ calls' = calls \o FillCalls(form, n)
          /\ IF n = Len(form)
             THEN pc' = "p_submit_page" /\ UNCHANGED result
             ELSE Return("False")
    /\ UNCHANGED <<argv, mainvars, locals, users, raw_users, aux>>

\* line 180: page_content = extract_page_content()
ProvisionSubmitPage ==
    /\ Running /\ pc = "p_submit_page"
    /\ \E m \in Markups : Step(Snapshot("submit", m), "p_submit_oracle")
    /\ UNCHANGED <<argv, mainvars, locals, users, raw_users, aux>>

\* lines 181-186 and 194-196: ask the oracle for the submit button
ProvisionSubmitOracle ==
    /\ Running /\ pc = "p_submit_oracle"
    /\ \E o \in FindOutcomes :
          LET u == find_ui_elements(o) IN
          /\ ui' = u
          /\ calls' = Append(calls, Find("submit", o))
          /\ IF RaisesOnUse(u) THEN Return("False")
             ELSE IF HasPrimary(u) THEN pc' = "p_submit_click" /\ UNCHANGED result
             ELSE Return("False")
    /\ UNCHANGED <<argv, mainvars, before_html, add_user_success, verdict, users, raw_users, aux>>

\* variant: a failed click on the submit button asks the oracle again
ProvisionSubmitClick_AskAgain ==
    /\ Running /\ pc = "p_submit_click"
    /\ \E ok \in BOOLEAN :
          IF ok
          THEN Step(Click("submit", "oracle", ui.conf, TRUE), "p_settle")
          ELSE Step(Click("submit", "oracle", ui.conf, FALSE), "p_submit_page")
    /\ UNCHANGED <<argv, mainvars, locals, users, raw_users, aux>>

\* lines 187-193: click the submit button
ProvisionSubmitClick ==
    /\ Running /\ pc = "p_submit_click"
    /\ \E ok \in BOOLEAN :
          IF ok
          THEN Step(Click("submit", "oracle", ui.conf, TRUE), "p_settle")
          ELSE StepReturn(Click("submit", "oracle", ui.conf, FALSE), "False")
    /\ UNCHANGED <<argv, mainvars, locals, users, raw_users, aux>>

\* variant: the after-snapshot is taken without the settle wait
ProvisionSettle_NoWait ==
    /\ Running /\ pc = "p_settle"
    /\ pc' = "p_after"
    /\ UNCHANGED <<argv, mainvars, calls, result, locals, users, raw_users, aux>>

\* line 199: asyncio.sleep(3)
ProvisionSettle ==
    /\ Running /\ pc = "p_settle"
    /\ Step(Sleep("after"), "p_after")
    /\ UNCHANGED <<argv, mainvars, locals, users, raw_users, aux>>

\* line 202: after_html = extract_page_content()
ProvisionAfter ==
    /\ Running /\ pc = "p_after"
    /\ \E m \in Markups : Step(Snapshot("after", m), "p_validate")
    /\ UNCHANGED <<argv, mainvars, locals, users, raw_users, aux>>

\* the call of ai_agent.validate_action_success with the oracle's outcome o
Validate(o) ==
    Ev("oracle", "validate", validate_action_success(o), "-",
       IF o.fail THEN "fail" ELSE "text", 0)

\* variant: the validator is called and True is returned whatever it said
ProvisionValidate_IgnoreVerdict ==
    /\ Running /\ pc = "p_validate"
    /\ \E o \in ValidateOutcomes :
          /\ verdict' = [called |-> TRUE, fail |-> o.fail, text |-> o.text]
          /\ StepReturn(Validate(o), "True")
    /\ UNCHANGED <<argv, mainvars, before_html, add_user_success, ui, users, raw_users, aux>>

\* lines 205-216: return what validate_action_success returned
ProvisionValidate ==
    /\ Running /\ pc = "p_validate"
    /\ \E o \in ValidateOutcomes :
          /\ verdict' = [called |-> TRUE, fail |-> o.fail, text |-> o.text]
          /\ StepReturn(Validate(o),
                        IF validate_action_success(o) THEN "True" ELSE "False")
    /\ UNCHANGED <<argv, mainvars, before_html, add_user_success, ui, users, raw_users, aux>>

-----------------------------------------------------------------------------
(* main.py: deprovision_user, lines 253-322 *)

\* line 254: before_html = extract_page_content(); its value is not tested
DeprovisionBefore ==
    /\ Running /\ pc = "d_before"
    /\ \E m \in Markups :
          /\ before_html' = m
          /\ Step(Snapshot("before", m), "d_row_oracle")
    /\ UNCHANGED <<argv, mainvars, add_user_success, ui, verdict, users, raw_users, aux>>

\* variant: no except clause around the workflow: the TypeError of a
\* non-object answer leaves deprovision_user
DeprovisionRowOracle_NoExcept ==
    /\ Running /\ pc = "d_row_oracle"
    /\ \E o \in FindOutcomes :
          LET u == find_ui_elements(o) IN
          /\ ui' = u
          /\ calls' = Append(calls, Find("row", o))
          /\ IF RaisesOnUse(u) THEN pc' = "fault" /\ UNCHANGED result
             ELSE IF HasPrimary(u) THEN pc' = "d_row_click" /\ UNCHANGED result
             ELSE Return("False")
    /\ UNCHANGED <<argv, mainvars, before_html, add_user_success, verdict, users, raw_users, aux>>

\* lines 257-264: ask the oracle for the user's row
DeprovisionRowOracle ==
    /\ Running /\ pc = "d_row_oracle"
    /\ \E o \in FindOutcomes :
          LET u == find_ui_elements(o) IN
          /\ ui' = u
          /\ calls' = Append(calls, Find("row", o))
          /\ IF RaisesOnUse(u) THEN Return("False")
             ELSE IF HasPrimary(u) THEN pc' = "d_row_click" /\ UNCHANGED result
             ELSE Return("False")
    /\ UNCHANGED <<argv, mainvars, before_html, add_user_success, verdict, users, raw_users, aux>>

\* line 267: click the row; the value click_element returns is dropped
DeprovisionRowClick ==
    /\ Running /\ pc = "d_row_click"
    /\ \E ok \in BOOLEAN : Step(Click("row", "oracle", ui.conf, ok), "d_updated_page")
    /\ UNCHANGED <<argv, mainvars, locals, users, raw_users, aux>>

\* line 270: updated_html = extract_page_content()
DeprovisionUpdatedPage ==
    /\ Running /\ pc = "d_updated_page"
    /\ \E m \in Markups : Step(Snapshot("delete", m), "d_delete_oracle")
    /\ UNCHANGED <<argv, mainvars, locals, users, raw_users, aux>>

\* lines 271-278: ask the oracle for the delete button
DeprovisionDeleteOracle ==
    /\ Running /\ pc = "d_delete_oracle"
    /\ \E o \in FindOutcomes :
          LET u == find_ui_elements(o) IN
          /\ ui' = u
          /\ calls' = Append(calls, Find("delete", o))
          /\ IF RaisesOnUse(u) THEN Return("False")
             ELSE IF HasPrimary(u) THEN pc' = "d_delete_click" /\ UNCHANGED result
             ELSE Return("False")
    /\ UNCHANGED <<argv, mainvars, before_html, add_user_success, verdict, users, raw_users, aux>>

\* lines 281-287: click the delete button
DeprovisionDeleteClick ==
    /\ Running /\ pc = "d_delete_click"
    /\ \E ok \in BOOLEAN :
          IF ok
          THEN Step(Click("delete", "oracle", ui.conf, TRUE), "d_settle_dialog")
          ELSE StepReturn(Click("delete", "oracle", ui.conf, FALSE), "False")
    /\ UNCHANGED <<argv, mainvars, locals, users, raw_users, aux>>

\* line 290: asyncio.sleep(1)
DeprovisionSettleDialog ==
    /\ Running /\ pc = "d_settle_dialog"
    /\ Step(Sleep("dialog"), "d_dialog_page")
    /\ UNCHANGED <<argv, mainvars, locals, users, raw_users, aux>>

\* line 291: dialog_html = extract_page_content()
DeprovisionDialogPage ==
    /\ Running /\ pc = "d_dialog_page"
    /\ \E m \in Markups : Step(Snapshot("confirm", m), "d_confirm_oracle")
    /\ UNCHANGED <<argv, mainvars, locals, users, raw_users, aux>>

\* variant: a confirmation button that is not found makes the workflow return False
DeprovisionConfirmOracle_Mandatory ==
    /\ Running /\ pc = "d_confirm_oracle"
    /\ \E o \in FindOutcomes :
          LET u == find_ui_elements(o) IN
          /\ ui' = u
          /\ calls' = Append(calls, Find("confirm", o))
          /\ IF RaisesOnUse(u) THEN Return("False")
             ELSE IF HasPrimary(u) THEN pc' = "d_confirm_click" /\ UNCHANGED result
             ELSE Return("False")
    /\ UNCHANGED <<argv, mainvars, before_html, add_user_success, verdict, users, raw_users, aux>>

\* lines 292-297: ask the oracle for the confirmation button; without one the
\* workflow goes on
DeprovisionConfirmOracle ==
    /\ Running /\ pc = "d_confirm_oracle"
    /\ \E o \in FindOutcomes :
          LET u == find_ui_elements(o) IN
          /\ ui' = u
          /\ calls' = Append(calls, Find("confirm", o))
          /\ IF RaisesOnUse(u) THEN Return("False")
             ELSE IF HasPrimary(u) THEN pc' = "d_confirm_click" /\ UNCHANGED result
             ELSE pc' = "d_settle" /\ UNCHANGED result
    /\ UNCHANGED <<argv, mainvars, before_html, add_user_success, verdict, users, raw_users, aux>>

\* line 298: click the confirmation button; the value returned is dropped
DeprovisionConfirmClick ==
    /\ Running /\ pc = "d_confirm_click"
    /\ \E ok \in BOOLEAN : Step(Click("confirm", "oracle", ui.conf, ok), "d_settle")
    /\ UNCHANGED <<argv, mainvars, locals, users, raw_users, aux>>

\* line 301: asyncio.sleep(3)
DeprovisionSettle ==
    /\ Running /\ pc = "d_settle"
    /\ Step(Sleep("after"), "d_after")
    /\ UNCHANGED <<argv, mainvars, locals, users, raw_users, aux>>

\* variant: an empty after-snapshot makes the workflow return False
DeprovisionAfter_AbortOnEmpty ==
    /\ Running /\ pc = "d_after"
    /\ \E m \in Markups :
          IF m # ""
          THEN Step(Snapshot("after", m), "d_validate")
          ELSE StepReturn(Snapshot("after", m), "False")
    /\ UNCHANGED <<argv, mainvars, locals, users, raw_users, aux>>

\* line 304: after_html = extract_page_content()
DeprovisionAfter ==
    /\ Running /\ pc = "d_after"
    /\ \E m \in Markups : Step(Snapshot("after", m), "d_validate")
    /\ UNCHANGED <<argv, mainvars, locals, users, raw_users, aux>>

\* lines 307-318: return what validate_action_success returned
DeprovisionValidate ==
    /\ Running /\ pc = "d_validate"
    /\ \E o \in ValidateOutcomes :
          /\ verdict' = [called |-> TRUE, fail |-> o.fail, text |-> o.text]
          /\ StepReturn(Validate(o),
                        IF validate_action_success(o) THEN "True" ELSE "False")
    /\ UNCHANGED <<argv, mainvars, before_html, add_user_success, ui, users, raw_users, aux>>

-----------------------------------------------------------------------------
(* data_processor.py *)

\* an Optional[str] of a record, or the value of a key of a raw entry: None
\* (JSON null), a string, a value that is neither (text: what str() gives), or
\* a key the entry does not have
None == [kind |-> "none", text |-> <<>>]
Str(t) == [kind |-> "str", text |-> t]
Other(t) == [kind |-> "other", text |-> t]
Missing == [kind |-> "missing", text |-> <<>>]

\* dict.get(key, default)
Get(v, default) == IF v.kind = "missing" THEN default ELSE v

\* str.replace of one character by another
Replace(s, old, new) == [i \in 1..Len(s) |-> IF s[i] = old THEN new ELSE s[i]]

RECURSIVE split(_)
\* str.split(): the words between runs of whitespace
split(s) ==
    IF s = <<>> THEN <<>>
    ELSE IF IsSpace(Head(s)) THEN split(Tail(s))
    ELSE LET n == CHOOSE n \in 1..Len(s) :
                     /\ \A i \in 1..n : ~IsSpace(s[i])
                     /\ n = Len(s) \/ IsSpace(s[n+1])
         IN  <<SubSeq(s, 1, n)>> \o split(SubSeq(s, n+1, Len(s)))

RECURSIVE join(_)
\* " ".join(words)
join(words) ==
    IF words = <<>> THEN <<>>
    ELSE IF Len(words) = 1 THEN words[1]
    ELSE words[1] \o <<" ">> \o join(Tail(words))

NullText == <<"n","u","l","l">>

\* DataProcessor.clean_text, lines 69-81
clean_text(text) ==
    IF text.kind \in {"none", "missing"} THEN None
    ELSE IF text.kind = "str" /\ (text.text = NullText \/ text.text = <<>>) THEN None
    ELSE IF text.kind = "str"
    THEN LET cleaned == join(split(Replace(Replace(Strip(text.text), "\n", " "),
                                           "\t", " ")))
         IN  IF cleaned # <<>> THEN Str(cleaned) ELSE None
    ELSE IF Strip(text.text) # <<>> THEN Str(Strip(text.text)) ELSE None

\* email texts a raw entry may carry
RawEmailTexts ==
    { <<"a","@","b">>, <<" ","a","@","b"," ">>, <<"c","@","d">>,
      <<"a">>, <<" ">>, <<"@">>, <<>> }

\* a raw entry with the email key missing, null, or a string, and the
\* optional keys as given
RawEntry(ek, ev, name, status) ==
    [ek |-> ek, ev |-> ev, name |-> name, role |-> Missing,
     last_login |-> Missing, status |-> status]

\* the raw entries of the oracle in a scrape: the optional keys are left out
RawEntries ==
    {RawEntry("missing", <<>>, Missing, Missing), RawEntry("null", <<>>, Missing, Missing)}
    \cup {RawEntry("str", e, Missing, Missing) : e \in RawEmailTexts}

\* lists of raw entries of length 0..MaxRaw
RawLists == UNION {[1..n -> RawEntries] : n \in 0..MaxRaw}

\* variant: the test on the email leaves out `"@" not in email`
EmailKept_NoAtTest(e) ==
    /\ e.ek = "str"
    /\ Strip(e.ev) # <<>>

\* lines 44-47: user_data.get("email", "").strip() and the test on it; a null
\* email raises inside the loop body and the entry is skipped
EmailKept(e) ==
    /\ e.ek = "str"
    /\ Strip(e.ev) # <<>>
    /\ Contains(Strip(e.ev), <<"@">>)

UnknownText == <<"U","n","k","n","o","w","n">>

\* lines 50-58: the UserRecord built for an entry (extracted_at and
\* source_saas, the same two strings in every record of a call, are left out)
UserRecord(e) ==
    [email |-> Strip(e.ev),
     name |-> clean_text(Get(e.name, None)),
     role |-> clean_text(Get(e.role, None)),
     last_login |-> clean_text(Get(e.last_login, None)),
     status |-> clean_text(Get(e.status, Str(UnknownText)))]

RECURSIVE process_raw_user_data(_)
\* variant: an entry whose email a later record already holds is left out
process_raw_user_data_Dedup(raw) ==
    IF raw = <<>> THEN <<>>
    ELSE LET rest == process_raw_user_data(Tail(raw))
             rec == UserRecord(Head(raw))
         IN  IF EmailKept(Head(raw)) /\ \A k \in 1..Len(rest) : rest[k] # rec
             THEN <<rec>> \o rest
             ELSE rest

\* DataProcessor.process_raw_user_data: one record per entry whose email passes
process_raw_user_data(raw) ==
    IF raw = <<>> THEN <<>>
    ELSE LET rest == process_raw_user_data(Tail(raw)) IN
         IF EmailKept(Head(raw))
         THEN <<UserRecord(Head(raw))>> \o rest
         ELSE rest

-----------------------------------------------------------------------------
(* main.py: scrape_users, lines 80-106 *)

\* lines 81-84: html_content = extract_page_content(); "" returns []
ScrapeContent ==
    /\ Running /\ pc = "s_content"
    /\ \E m \in Markups :
          IF m # ""
          THEN Step(Snapshot("users_page", m), "s_screenshot")
          ELSE StepReturn(Snapshot("users_page", m), "[]")
    /\ UNCHANGED <<argv, mainvars, locals, users, raw_users, aux>>

\* line 87: take_screenshot; a failure is logged inside and dropped
ScrapeScreenshot ==
    /\ Running /\ pc = "s_screenshot"
    /\ \E ok \in BOOLEAN :
          Step(Ev("screenshot", "users_page", ok, "-", "-", 0), "s_extract")
    /\ UNCHANGED <<argv, mainvars, locals, users, raw_users, aux>>

\* DataProcessor.save_to_json / save_to_csv: the writes issued for a record
\* list; save_to_csv writes nothing for an empty list
SaveCalls(records, json_ok, csv_ok) ==
    <<Ev("save_json", "users", json_ok, "-", "-", Len(records))>>
    \o (IF records = <<>> THEN <<>>
        ELSE <<Ev("save_csv", "users", csv_ok, "-", "-", Len(records))>>)

\* lines 90-102: extract_users_from_html (a failed call gives []), return []
\* when nothing came back, else process, save and return the records
ScrapeExtract ==
    /\ Running /\ pc = "s_extract"
    /\ raw_users' \in RawLists
    /\ LET got == raw_users'
           processed_users == process_raw_user_data(got)
       IN  IF got = <<>>
           THEN /\ \E fail \in BOOLEAN :
                      StepReturn(Ev("oracle", "extract", ~fail, "-",
                                    IF fail THEN "fail" ELSE "list", 0), "[]")
                /\ UNCHANGED users
           ELSE /\ users' = processed_users
                /\ Return(IF processed_users = <<>> THEN "[]" ELSE "list")
                /\ \E json_ok, csv_ok \in BOOLEAN :
                      calls' = calls
                               \o <<Ev("oracle", "extract", TRUE, "-", "list", Len(got))>>
                               \o SaveCalls(processed_users, json_ok, csv_ok)
    /\ UNCHANGED <<argv, mainvars, locals, aux>>

-----------------------------------------------------------------------------

Next ==
    \/ MainInitialize
    \/ MainDispatch
    \/ MainReport
    \/ MainRaise
    \/ MainCleanup
    \/ CheckConfig
    \/ Login
    \/ Navigate
    \/ ScrapeContent
    \/ ScrapeScreenshot
    \/ ScrapeExtract
    \/ ProvisionBefore
    \/ ProvisionAddStatic
    \/ ProvisionFallbackPage
    \/ ProvisionFallbackOracle
    \/ ProvisionFallbackClick
    \/ ProvisionSettleForm
    \/ ProvisionFill
    \/ ProvisionSubmitPage
    \/ ProvisionSubmitOracle
    \/ ProvisionSubmitClick
    \/ ProvisionSettle
    \/ ProvisionAfter
    \/ ProvisionValidate
    \/ DeprovisionBefore
    \/ DeprovisionRowOracle
    \/ DeprovisionRowClick
    \/ DeprovisionUpdatedPage
    \/ DeprovisionDeleteOracle
    \/ DeprovisionDeleteClick
    \/ DeprovisionSettleDialog
    \/ DeprovisionDialogPage
    \/ DeprovisionConfirmOracle
    \/ DeprovisionConfirmClick
    \/ DeprovisionSettle
    \/ DeprovisionAfter
    \/ DeprovisionValidate

Spec == Init /\ [][Next]_vars

-----------------------------------------------------------------------------
(* data_processor.py: the methods of DataProcessor called on their own *)

\* the variables of main and of the workflows
wfvars == <<action, saas_id, user_email, user_name, user_role, mpc, pc, calls,
            before_html, add_user_success, ui, verdict, result, users,
            raw_users, printed, raised, cleanups>>

\* main has not been started
NotStarted ==
    /\ action = "scrape" /\ saas_id = "dropbox"
    /\ user_email = FALSE /\ user_name = FALSE /\ user_role = FALSE
    /\ mpc = "start" /\ pc = "idle" /\ calls = <<>>
    /\ before_html = "unset" /\ add_user_success = FALSE
    /\ ui = NoUi /\ verdict = NoVerdict
    /\ result = "none" /\ users = <<>> /\ raw_users = <<>>
    /\ printed = "none" /\ raised = FALSE /\ cleanups = 0

NoneText == <<"N","o","n","e">>

\* arguments of clean_text
CleanInputs ==
    {None, Other(<<"7">>), Other(<<" ">>)}
    \cup {Str(t) : t \in { <<>>, NullText, <<" ","n","u","l","l"," ">>,
                           <<"n","u","l","l","\n">>, <<"a"," ","n","u","l","l">>,
                           <<" ">>, <<" ","\t","\n">>, <<"a">>,
                           <<" ","a"," "," ","b"," ">>, <<"a","\n","b","\t">> }}

\* values of an optional key of a raw entry
RawNames ==
    {Missing, None, Other(<<"7">>)}
    \cup {Str(t) : t \in { <<>>, NullText, <<" ","n","u","l","l"," ">>, <<" ">>,
                           <<"x">> }}
RawStatuses == {Missing, None, Str(<<"n","u","l","l","\n">>)}

\* raw entries with optional keys
FullRawEntries ==
    {RawEntry(ek, <<"a","@","b">>, n, st) :
        ek \in {"missing", "str"}, n \in RawNames, st \in RawStatuses}

FullRawLists == UNION {[1..n -> FullRawEntries] : n \in 0..MaxEntries}

\* records as a caller of save_to_json / save_to_csv may build them
SavedRecords ==
    {[email |-> <<"a","@","b">>, name |-> n, role |-> None,
      last_login |-> None, status |-> st] :
        n \in {None, Str(<<>>), Str(NoneText), Str(<<"x">>)},
        st \in {None, Str(UnknownText)}}

SavedLists == UNION {[1..n -> SavedRecords] : n \in 0..MaxRecs}

\* records of the datasets compare_datasets is given
ComparedRecords ==
    {[email |-> e, name |-> None, role |-> None, last_login |-> None,
      status |-> None] :
        e \in {<<"a","@","x">>, <<"b","@","x">>, <<"c","@","x">>}}

ComparedLists == UNION {[1..n -> ComparedRecords] : n \in 0..MaxRecs}

\* records of the lists generate_report is given; role, status and
\* source_saas are None, the empty string, the text "Unknown" or another text
ReportRecords ==
    {[email |-> e, name |-> None, role |-> r, last_login |-> None,
      status |-> st, source_saas |-> sa] :
        e \in {<<"a","@","x">>, <<"b","@","x">>},
        r \in {None, Str(<<>>), Str(UnknownText), Str(<<"x">>)},
        st \in {None, Str(<<"y">>)},
        sa \in {None, Str(<<"z">>)}}

ReportLists == UNION {[1..n -> ReportRecords] : n \in 0..MaxRecs}

DataOps == {"clean_text", "process_raw_user_data", "save_to_json",
            "save_to_csv", "compare_datasets", "generate_report"}

DataInputs(op) ==
    CASE op = "clean_text" -> CleanInputs
      [] op = "process_raw_user_data" -> FullRawLists
      [] op \in {"save_to_json", "save_to_csv"} -> SavedLists
      [] op = "compare_datasets" -> ComparedLists \X ComparedLists
      [] op = "generate_report" -> ReportLists

\* a DataProcessor and the argument of the method to call on it
DataInit ==
    /\ NotStarted
    /\ dp_op \in DataOps
    /\ dp_in \in DataInputs(dp_op)
    /\ dp_file = NoFile
    /\ dp_out = Pending
    /\ inst = <<>>
    /\ files = NoFiles
    /\ loop = 0
    /\ handler = NoHandler
    /\ hpc = "new"
    /\ released = <<>>

\* json.dump of a field: None is written as null, a string as a string
JsonOf(v) == IF v.kind = "none" THEN [null |-> TRUE, text |-> <<>>]
             ELSE [null |-> FALSE, text |-> v.text]
\* json.load of a field
FromJson(j) == IF j.null THEN None ELSE Str(j.text)

\* save_to_json, lines 83-110: asdict of every record under "users"
save_to_json(recs) ==
    [format |-> "json",
     rows |-> [i \in 1..Len(recs) |->
                 [email |-> JsonOf(Str(recs[i].email)),
                  name |-> JsonOf(recs[i].name),
                  role |-> JsonOf(recs[i].role),
                  last_login |-> JsonOf(recs[i].last_login),
                  status |-> JsonOf(recs[i].status)]]]

\* csv.DictWriter.writerow of a field: None is written as the empty cell
CsvCell(v) == IF v.kind = "none" THEN <<>> ELSE v.text

\* save_to_csv, lines 112-139: nothing is written for an empty list and the
\* path returned is ""
save_to_csv(recs) ==
    IF recs = <<>> THEN [format |-> "nopath", rows |-> <<>>]
    ELSE [format |-> "csv",
          rows |-> [i \in 1..Len(recs) |->
                      [email |-> recs[i].email,
                       name |-> CsvCell(recs[i].name),
                       role |-> CsvCell(recs[i].role),
                       last_login |-> CsvCell(recs[i].last_login),
                       status |-> CsvCell(recs[i].status)]]]

\* lines 159-161: a cell that is '' or 'None' is read back as None
FromCsv(cell) ==
    IF cell = <<>> \/ cell = NoneText THEN None ELSE Str(cell)

\* the email of a loaded row: the text of the cell, or None
LoadedEmail(v) == IF v.kind = "none" THEN None ELSE v.text

\* load_existing_data, lines 141-169: the parser is chosen by the extension
\* of the path; a path with neither extension gives []
load_existing_data(file) ==
    IF file.format = "json"
    THEN [i \in 1..Len(file.rows) |->
            [email |-> LoadedEmail(FromJson(file.rows[i].email)),
             name |-> FromJson(file.rows[i].name),
             role |-> FromJson(file.rows[i].role),
             last_login |-> FromJson(file.rows[i].last_login),
             status |-> FromJson(file.rows[i].status)]]
    ELSE IF file.format = "csv"
    THEN [i \in 1..Len(file.rows) |->
            [email |-> LoadedEmail(FromCsv(file.rows[i].email)),
             name |-> FromCsv(file.rows[i].name),
             role |-> FromCsv(file.rows[i].role),
             last_login |-> FromCsv(file.rows[i].last_login),
             status |-> FromCsv(file.rows[i].status)]]
    ELSE <<>>

\* variant: added_users is every email of the second dataset
compare_datasets_AddedIsAll(dataset1, dataset2) ==
    LET emails1 == {dataset1[i].email : i \in 1..Len(dataset1)}
        emails2 == {dataset2[i].email : i \in 1..Len(dataset2)}
    IN  [dataset1_count |-> Len(dataset1),
         dataset2_count |-> Len(dataset2),
         added_users |-> emails2,
         removed_users |-> emails1 \ emails2,
         common_users_count |-> Cardinality(emails1 \cap emails2)]

\* compare_datasets, lines 215-234 (the lists of added and removed users are
\* built from sets: their order is not fixed)
compare_datasets(dataset1, dataset2) ==
    LET emails1 == {dataset1[i].email : i \in 1..Len(dataset1)}
        emails2 == {dataset2[i].email : i \in 1..Len(dataset2)}
    IN  [dataset1_count |-> Len(dataset1),
         dataset2_count |-> Len(dataset2),
         added_users |-> emails2 \ emails1,
         removed_users |-> emails1 \ emails2,
         common_users_count |-> Cardinality(emails1 \cap emails2)]

\* lines 184, 188, 192: `value or "Unknown"`: None and the empty string are
\* falsy
OrUnknown(v) == IF v.kind = "none" \/ v.text = <<>> THEN UnknownText ELSE v.text

\* variant: the count of a key is set to 1 each time the key is met
Bump_Reset(counts, k) ==
    [x \in DOMAIN counts \cup {k} |-> IF x = k THEN 1 ELSE counts[x]]

\* lines 185, 189, 193: counts[k] = counts.get(k, 0) + 1
Bump(counts, k) ==
    [x \in DOMAIN counts \cup {k} |->
        IF x = k THEN (IF k \in DOMAIN counts THEN counts[k] ELSE 0) + 1
        ELSE counts[x]]

RECURSIVE Tally(_, _)
\* lines 178-193: the loop over users that fills one of the three dicts
Tally(records, field) ==
    IF records = <<>> THEN [x \in {} |-> 0]
    ELSE Bump(Tally(SubSeq(records, 1, Len(records) - 1), field),
              OrUnknown(records[Len(records)][field]))

\* lines 171-213: generate_report (report_generated_at, a time stamp, is left
\* out)
generate_report(records) ==
    IF records = <<>> THEN [error |-> "No user data available"]
    ELSE [summary |->
             [total_users |-> Len(records),
              unique_emails |->
                  Cardinality({records[i].email : i \in 1..Len(records)})],
          breakdown |->
             [by_saas |-> Tally(records, "source_saas"),
              by_role |-> Tally(records, "role"),
              by_status |-> Tally(records, "status")],
          sample_users |->
             SubSeq(records, 1, IF Len(records) < 5 THEN Len(records) ELSE 5)]

\* a call of clean_text
CleanTextCall ==
    /\ dp_op = "clean_text" /\ ~dp_out.done
    /\ dp_out' = Returns(clean_text(dp_in))
    /\ UNCHANGED <<wfvars, concvars, brvars, dp_op, dp_in, dp_file>>

\* a call of process_raw_user_data
ProcessCall ==
    /\ dp_op = "process_raw_user_data" /\ ~dp_out.done
    /\ dp_out' = Returns(process_raw_user_data(dp_in))
    /\ UNCHANGED <<wfvars, concvars, brvars, dp_op, dp_in, dp_file>>

\* a call of save_to_json
SaveToJson ==
    /\ dp_op = "save_to_json" /\ dp_file = NoFile
    /\ dp_file' = save_to_json(dp_in)
    /\ UNCHANGED <<wfvars, concvars, brvars, dp_op, dp_in, dp_out>>

\* a call of save_to_csv
SaveToCsv ==
    /\ dp_op = "save_to_csv" /\ dp_file = NoFile
    /\ dp_file' = save_to_csv(dp_in)
    /\ UNCHANGED <<wfvars, concvars, brvars, dp_op, dp_in, dp_out>>

\* a call of load_existing_data on the path the save returned
LoadExistingData ==
    /\ dp_file # NoFile /\ ~dp_out.done
    /\ dp_out' = Returns(load_existing_data(dp_file))
    /\ UNCHANGED <<wfvars, concvars, brvars, dp_op, dp_in, dp_file>>

\* a call of compare_datasets
CompareCall ==
    /\ dp_op = "compare_datasets" /\ ~dp_out.done
    /\ dp_out' = Returns(compare_datasets(dp_in[1], dp_in[2]))
    /\ UNCHANGED <<wfvars, concvars, brvars, dp_op, dp_in, dp_file>>

\* a call of generate_report
ReportCall ==
    /\ dp_op = "generate_report" /\ ~dp_out.done
    /\ dp_out' = Returns(generate_report(dp_in))
    /\ UNCHANGED <<wfvars, concvars, brvars, dp_op, dp_in, dp_file>>

DataNext ==
    \/ CleanTextCall
    \/ ProcessCall
    \/ SaveToJson
    \/ SaveToCsv
    \/ LoadExistingData
    \/ CompareCall
    \/ ReportCall

DataSpec == DataInit /\ [][DataNext]_vars

-----------------------------------------------------------------------------
(* main.py: two scrape_users coroutines, each of its own orchestrator, run  *)
(* as tasks of one event loop from the users page on (lines 80-102).        *)
(* An awaited call gives the thread back to the loop until the answer is    *)
(* there; a call that is not awaited keeps it.                              *)

Insts == {1, 2}

\* raw entries the oracle answers to an instance's extraction
InstRawLists ==
    {<<>>, <<RawEntry("str", <<"a","@","b">>, Missing, Missing)>>,
           <<RawEntry("str", <<"c","@","d">>, Missing, Missing)>>}

\* an instance on the users page of its portal
Started(sid) == [saas |-> sid, pc |-> "content", wait |-> "no",
                 recs |-> <<>>, result |-> "none"]

\* both instances have logged in and navigated, each in its own session
ConcInit ==
    /\ NotStarted
    /\ dp_op = "none" /\ dp_in = <<>> /\ dp_file = NoFile /\ dp_out = Pending
    /\ inst \in [Insts -> {Started(sid) : sid \in {"dropbox", "notion"}}]
    /\ files = NoFiles
    /\ loop = 0
    /\ handler = NoHandler
    /\ hpc = "new"
    /\ released = <<>>

\* the instance runs on: the thread is free and the instance waits for nothing
Runnable(p, at) == inst[p].pc = at /\ inst[p].wait = "no" /\ loop = 0
\* the answer of an awaited call is handed to the instance
Resumable(p, at) == inst[p].pc = at /\ inst[p].wait = "driver" /\ loop = 0

\* line 81: `await self.browser_handler.extract_page_content()` is issued
ContentCall(p) ==
    /\ Runnable(p, "content")
    /\ inst' = [inst EXCEPT ![p].wait = "driver"]
    /\ UNCHANGED <<wfvars, dpvars, brvars, files, loop>>

\* lines 81-84: the content is there; "" returns []
ContentReturn(p) ==
    /\ Resumable(p, "content")
    /\ \E m \in Markups :
          inst' = [inst EXCEPT ![p].wait = "no",
                               ![p].pc = IF m = "" THEN "done" ELSE "screenshot",
                               ![p].result = IF m = "" THEN "[]" ELSE "none"]
    /\ UNCHANGED <<wfvars, dpvars, brvars, files, loop>>

\* line 87: `await self.browser_handler.take_screenshot(...)` is issued
ScreenshotCall(p) ==
    /\ Runnable(p, "screenshot")
    /\ inst' = [inst EXCEPT ![p].wait = "driver"]
    /\ UNCHANGED <<wfvars, dpvars, brvars, files, loop>>

\* take_screenshot, browser_automation.py 153-165: the page is written to
\* logs/<saas_id>_users_page.png unless the driver failed
ScreenshotReturn(p) ==
    /\ Resumable(p, "screenshot")
    /\ \E ok \in BOOLEAN :
          files' = IF ok
                   THEN [files EXCEPT ![[saas |-> inst[p].saas, kind |-> "users_page.png"]] =
                                          [by |-> p, recs |-> <<>>]]
                   ELSE files
    /\ inst' = [inst EXCEPT ![p].wait = "no", ![p].pc = "extract"]
    /\ UNCHANGED <<wfvars, dpvars, brvars, loop>>

\* line 90 and ai_agent.py 66-76: extract_users_from_html calls
\* client.chat.completions.create of the synchronous client, without await
ExtractCall(p) ==
    /\ Runnable(p, "extract")
    /\ inst' = [inst EXCEPT ![p].wait = "oracle"]
    /\ loop' = p
    /\ UNCHANGED <<wfvars, dpvars, brvars, files>>

\* the files save_to_json / save_to_csv of lines 99-100 leave
SavedFiles(p, recs, json_ok, csv_ok) ==
    [f \in FileNames |->
        IF /\ f.saas = inst[p].saas
           /\ \/ f.kind = "users.json" /\ json_ok
              \/ f.kind = "users.csv" /\ csv_ok /\ recs # <<>>
        THEN [by |-> p, recs |-> recs]
        ELSE files[f]]

\* lines 90-102: the oracle answered; nothing (or a failure) returns [], else
\* the entries are processed, saved and returned, without an await in between
ExtractReturn(p) ==
    /\ inst[p].pc = "extract" /\ inst[p].wait = "oracle" /\ loop = p
    /\ \E raw \in InstRawLists, json_ok, csv_ok \in BOOLEAN :
          LET processed_users == process_raw_user_data(raw) IN
          /\ inst' = [inst EXCEPT ![p].wait = "no", ![p].pc = "done",
                                  ![p].recs = processed_users,
                                  ![p].result = IF processed_users = <<>>
                                                THEN "[]" ELSE "list"]
          /\ files' = IF raw = <<>> THEN files
                      ELSE SavedFiles(p, processed_users, json_ok, csv_ok)
    /\ loop' = 0
    /\ UNCHANGED <<wfvars, dpvars, brvars>>

\* the steps of instance p
InstStep(p) ==
    \/ ContentCall(p) \/ ContentReturn(p)
    \/ ScreenshotCall(p) \/ ScreenshotReturn(p)
    \/ ExtractCall(p) \/ ExtractReturn(p)

ConcNext ==
    \/ \E p \in Insts : ContentCall(p)
    \/ \E p \in Insts : ContentReturn(p)
    \/ \E p \in Insts : ScreenshotCall(p)
    \/ \E p \in Insts : ScreenshotReturn(p)
    \/ \E p \in Insts : ExtractCall(p)
    \/ \E p \in Insts : ExtractReturn(p)

ConcSpec == ConcInit /\ [][ConcNext]_vars

-----------------------------------------------------------------------------
(* browser_automation.py: the handler's resources from initialize_browser to
   cleanup, under main's try / finally; the workflow is one step *)

ResourceSet == {Resources[i] : i \in 1..Len(Resources)}
\* lines 179-186: the order in which cleanup releases them
CleanupOrder == <<"page", "context", "browser", "playwright">>
\* the position of cleanup in front of the release of a resource
CleanupAt == [page |-> "close_page", context |-> "close_context",
              browser |-> "close_browser", playwright |-> "stop_playwright"]

BrowserInit ==
    /\ action \in Actions
    /\ saas_id = "dropbox"
    /\ user_email \in BOOLEAN
    /\ user_name = FALSE /\ user_role = FALSE
    /\ mpc = "start" /\ pc = "idle" /\ calls = <<>>
    /\ before_html = "unset" /\ add_user_success = FALSE
    /\ ui = NoUi /\ verdict = NoVerdict
    /\ result = "none" /\ users = <<>> /\ raw_users = <<>>
    /\ printed = "none" /\ raised = FALSE /\ cleanups = 0
    /\ dp_op = "none" /\ dp_in = <<>> /\ dp_file = NoFile /\ dp_out = Pending
    /\ inst = <<>> /\ files = NoFiles /\ loop = 0
    /\ handler = NoHandler
    /\ hpc = "new"
    /\ released = <<>>

\* what the steps of the handler leave alone
brframe == <<argv, pc, calls, locals, result, users, raw_users, dpvars, concvars>>

\* main.py 344, 42-44: main awaits initialize, which awaits initialize_browser
InitializeCall ==
    /\ mpc = "start" /\ hpc = "new"
    /\ hpc' = "init"
    /\ UNCHANGED <<brframe, mainvars, handler, released>>

\* browser_automation.py 37-44: the next resource is opened and stored in its
\* field, or the call raises and the except block is entered (48-51)
OpenResource ==
    /\ mpc = "start" /\ hpc = "init"
    /\ LET i == CHOOSE i \in 1..Len(Resources) :
                    /\ handler[Resources[i]] = "None"
                    /\ \A j \in 1..(i - 1) : handler[Resources[j]] # "None"
       IN  \E ok \in BOOLEAN :
              IF ok
              THEN /\ handler' = [handler EXCEPT ![Resources[i]] = "open"]
                   /\ hpc' = IF i = Len(Resources) THEN "ready" ELSE "init"
              ELSE /\ hpc' = "init_failed"
                   /\ UNCHANGED handler
    /\ UNCHANGED <<brframe, mainvars, released>>

\* browser_automation.py 47, 51 and main.py 344-347: initialize_browser returns
\* True or False; on False main prints and returns through the finally block
InitializeReturn ==
    /\ mpc = "start" /\ hpc \in {"ready", "init_failed"}
    /\ IF hpc = "ready"
       THEN /\ mpc' = "dispatch"
            /\ UNCHANGED printed
       ELSE /\ mpc' = "finally"
            /\ printed' = "init_failed"
    /\ UNCHANGED <<brframe, raised, cleanups, brvars>>

\* a cancellation or interrupt delivered while initialize is awaited: it is no
\* Exception, so line 48 does not catch it and it leaves main's try block
InitializeInterrupted ==
    /\ mpc = "start" /\ hpc = "init"
    /\ hpc' = "interrupted"
    /\ mpc' = "finally"
    /\ raised' = TRUE
    /\ UNCHANGED <<brframe, printed, cleanups, handler, released>>

\* main.py 349-397: the branch on args.action with the workflow it awaits, by
\* what main printed, or the exception that left the try block
WorkflowRuns ==
    /\ mpc = "dispatch" /\ hpc = "ready"
    /\ mpc' = "finally"
    /\ IF action \in {"provision", "deprovision"} /\ ~user_email
       THEN printed' = "need_email" /\ UNCHANGED raised
       ELSE \/ /\ \E success \in BOOLEAN :
                     printed' = CASE action = "scrape" ->
                                       IF success THEN "scrape_ok" ELSE "scrape_failed"
                                  [] action = "provision" ->
                                       IF success THEN "provision_ok"
                                       ELSE "provision_failed"
                                  [] action = "deprovision" ->
                                       IF success THEN "deprovision_ok"
                                       ELSE "deprovision_failed"
               /\ UNCHANGED raised
            \/ /\ raised' = TRUE
               /\ UNCHANGED printed
    /\ UNCHANGED <<brframe, cleanups, brvars>>

\* main.py 399-401, 46-48: finally: cleanup of the orchestrator calls cleanup
\* of the handler
CleanupCall ==
    /\ mpc = "finally" /\ hpc \in {"ready", "init_failed", "interrupted"}
    /\ hpc' = CleanupAt[CleanupOrder[1]]
    /\ UNCHANGED <<brframe, mainvars, handler, released>>

\* browser_automation.py 179-186: `if self.<resource>: await <resource>.close()`
\* (stop for the driver); a field that is None is passed over; a release that
\* raises enters the except block of line 188, past the releases that follow
Release ==
    \E i \in 1..Len(CleanupOrder) :
        LET r == CleanupOrder[i]
            next == IF i = Len(CleanupOrder) THEN "completed"
                    ELSE CleanupAt[CleanupOrder[i + 1]]
        IN  /\ mpc = "finally" /\ hpc = CleanupAt[r]
            /\ IF handler[r] = "None"
               THEN /\ hpc' = next
                    /\ UNCHANGED <<handler, released>>
               ELSE \E ok \in BOOLEAN :
                       /\ released' = Append(released, [res |-> r, ok |-> ok])
                       /\ IF ok
                          THEN /\ handler' = [handler EXCEPT ![r] = "closed"]
                               /\ hpc' = next
                          ELSE /\ hpc' = "error"
                               /\ UNCHANGED handler
            /\ UNCHANGED <<brframe, mainvars>>

\* browser_automation.py 187, 189: cleanup logs and returns; main.py 401
CleanupReturn ==
    /\ mpc = "finally" /\ hpc \in {"completed", "error"}
    /\ mpc' = "exit"
    /\ cleanups' = cleanups + 1
    /\ UNCHANGED <<brframe, printed, raised, brvars>>

BrowserNext ==
    \/ InitializeCall
    \/ OpenResource
    \/ InitializeReturn
    \/ InitializeInterrupted
    \/ WorkflowRuns
    \/ CleanupCall
    \/ Release
    \/ CleanupReturn

BrowserSpec == BrowserInit /\ [][BrowserNext]_vars

-----------------------------------------------------------------------------
(* Vocabulary of the properties *)

Idx == 1..Len(calls)

IsAct(e) == e.k \in {"click", "fill"}

\* a request to the oracle for a locator
IsFind(e) == e.k = "oracle" /\ e.task \notin {"validate", "extract"}

\* an act on a locator the oracle returned
IsOracleAct(e) == e.k = "click" /\ e.sel = "oracle"

Returned == pc = "returned"

\* the locator tasks without which the operation cannot go on
MandatoryTasks == {"add_user", "submit", "row", "delete"}

-----------------------------------------------------------------------------
(* C1 *)

\* C1: a locator candidate of the oracle is usable iff its confidence is at or
\* above the acceptance threshold.  Stated here for its safety half: there is
\* a positive threshold such that no act was issued on an oracle locator whose
\* confidence is below it.
C1_SubThresholdNeverActed ==
    \E threshold \in 1..MaxConf :
        \A i \in Idx : IsOracleAct(calls[i]) => calls[i].conf >= threshold

-----------------------------------------------------------------------------
(* C2 *)

\* a step whose failure the workflow is to abort on: login, navigation, a
\* mandatory resolution, or an act on a resolved locator (the click on the
\* static add-user locator is the one act whose failure starts a fallback)
FailedStep(e) ==
    \/ e.k \in {"login", "navigate"} /\ ~e.ok
    \/ IsFind(e) /\ e.task \in MandatoryTasks /\ ~e.ok
    \/ IsOracleAct(e) /\ ~e.ok
    \/ e.k = "fill" /\ ~e.ok

\* the calls a failed step may still be followed by: the screenshot that
\* login_to_saas takes itself
InsideStep(i, j) ==
    calls[i].k = "login" /\ j = i + 1 /\ calls[j].k = "screenshot"

\* C2: when authentication, navigation, a mandatory resolution or an act
\* fails, no later step of the sequence is performed and the workflow ends
\* with a failure result.
C2_FailureStopsWorkflow ==
    \A i \in Idx :
        FailedStep(calls[i]) =>
            /\ \A j \in Idx : j > i => InsideStep(i, j)
            /\ Returned => result = Failure

-----------------------------------------------------------------------------
(* C3 *)

AfterSnapshotAt(j) == calls[j].k = "snapshot" /\ calls[j].task = "after"
ValidatorAt(j) == calls[j].k = "oracle" /\ calls[j].task = "validate"

\* the after-snapshot and then the validator follow call i
ValidatedAfter(i) ==
    \E j, k \in Idx : i < j /\ j < k /\ AfterSnapshotAt(j) /\ ValidatorAt(k)

\* C3 as stated: once any click or fill of Add or Remove was issued, the
\* workflow has captured the after-snapshot and invoked the validator by the
\* time it returns.
C3_AnyActThenValidated ==
    Returned => \A i \in Idx : IsAct(calls[i]) => ValidatedAfter(i)

\* the last act of the sequence: the submit click of Add once it succeeded,
\* the confirmation click of Remove whatever its result
FinalAct(e) ==
    \/ e.k = "click" /\ e.task = "submit" /\ e.ok
    \/ e.k = "click" /\ e.task = "confirm"

\* C3 amended: once the last act of the sequence was issued (the successful
\* submit click, the confirmation click), the workflow has captured the
\* after-snapshot and invoked the validator by the time it returns, and it
\* does not return before.
C3_FinalActThenValidated ==
    \A i \in Idx :
        FinalAct(calls[i]) =>
            /\ Returned => ValidatedAfter(i)
            /\ result # "none" => ValidatedAfter(i)
            /\ pc \in {"p_settle", "p_after", "p_validate",
                       "d_settle", "d_after", "d_validate", "returned"}

\* Remove returned after a confirmation click that failed, and validated
C3_Witness ==
    /\ Returned
    /\ verdict.called
    /\ \E i \in Idx : calls[i].k = "click" /\ calls[i].task = "confirm" /\ ~calls[i].ok

-----------------------------------------------------------------------------
(* C4 *)

StaticAddOk(e) == e.k = "click" /\ e.task = "add_user" /\ e.sel = "static" /\ e.ok

\* C4: in Add, when the act on the static add-user locator succeeds, the
\* oracle is never asked for the add-user control and no act is issued on an
\* oracle locator for it: the static locator is the one used.
C4_StaticAddSkipsOracle ==
    (\E i \in Idx : StaticAddOk(calls[i])) =>
        \A j \in Idx :
            calls[j].task = "add_user" => calls[j].k = "click" /\ calls[j].sel = "static"

\* Add went past the add-user control on the static locator and asked the
\* oracle for the submit control
C4_Witness ==
    /\ \E i \in Idx : StaticAddOk(calls[i])
    /\ \E j \in Idx : IsFind(calls[j]) /\ calls[j].task = "submit"

-----------------------------------------------------------------------------
(* C5 *)

StaticAddFailed(e) == e.k = "click" /\ e.task = "add_user" /\ e.sel = "static" /\ ~e.ok

\* calls i and j are the same kind of step for the same task
SameStep(i, j) == calls[i].k = calls[j].k /\ calls[i].task = calls[j].task

\* the fallback for the add-user control has been made
FallbackMade == pc \notin {"p_fallback_page", "p_fallback_oracle"}

-----------------------------------------------------------------------------
(* C6 *)

\* the oracle returned no primary locator
NoPrimary(e) == IsFind(e) /\ e.resp \in {"fail", "empty", "noprimary"}

\* C6: when the oracle returns no primary locator for a task, no act is
\* issued on an oracle locator for that task; for a mandatory task the
\* operation returns failure at once.
C6_NoLocatorNoAct ==
    \A i \in Idx :
        NoPrimary(calls[i]) =>
            /\ \A j \in Idx : IsOracleAct(calls[j]) => calls[j].task # calls[i].task
            /\ calls[i].task \in MandatoryTasks =>
                  i = Len(calls) /\ Returned /\ result = "False"

\* Add returned failure on a submit answer that held no primary_selector
C6_Witness ==
    /\ Returned
    /\ calls # <<>>
    /\ NoPrimary(calls[Len(calls)])
    /\ calls[Len(calls)].task = "submit"
    /\ calls[Len(calls)].resp = "noprimary"

-----------------------------------------------------------------------------
(* C7 *)

\* the workflow captured a before- and an after-snapshot and its last call is
\* the validator, which answered success
ValidatedSuccess ==
    /\ calls # <<>>
    /\ ValidatorAt(Len(calls))
    /\ calls[Len(calls)].ok
    /\ verdict.called /\ ~verdict.fail
    /\ \E i, j \in Idx :
          /\ i < j /\ j < Len(calls)
          /\ calls[i].k = "snapshot" /\ calls[i].task = "before"
          /\ AfterSnapshotAt(j)

\* C7: provision_user and deprovision_user return True only when the
\* validator was invoked on the snapshot pair and returned success, and main
\* prints a success message only for such a run.
C7_SuccessOnlyIfValidated ==
    /\ result = "True" => ValidatedSuccess
    /\ printed \in {"provision_ok", "deprovision_ok"} =>
          result = "True" /\ ValidatedSuccess

\* main printed the success message of a provisioning
C7_Witness == printed = "provision_ok"

-----------------------------------------------------------------------------
(* C8 *)

\* C8: validate_action_success returns success exactly when the oracle's
\* case-normalized response is the success token; every other response and
\* every oracle failure yields False.
C8_SuccessIffToken ==
    verdict.called =>
        (result = "True" <=>
            ~verdict.fail /\ Upper(Strip(verdict.text)) = SuccessToken)

-----------------------------------------------------------------------------
(* C9 *)

\* C9: on every exit path of main after the orchestrator is constructed,
\* cleanup is invoked exactly once before the run ends: the run ends only at
\* the exit of main, with one cleanup made, and no cleanup is made before
\* the finally block.
C9_CleanupExactlyOnce ==
    /\ cleanups = (IF mpc = "exit" THEN 1 ELSE 0)
    /\ ~(ENABLED Next) => mpc = "exit"

\* main ended after an exception left the try block while a workflow ran
C9_Witness == mpc = "exit" /\ raised /\ cleanups = 1 /\ calls # <<>>

-----------------------------------------------------------------------------
(* C10 *)

\* C10: with a portal identifier that is not a key of SAAS_CONFIGS the
\* operation returns failure without any Page Driver or Oracle call.
C10_UnknownPortalFailsFast ==
    saas_id \notin DOMAIN SAAS_CONFIGS =>
        /\ calls = <<>>
        /\ pc \in {"idle", "check", "returned"}
        /\ Returned => result = Failure /\ users = <<>>

\* an operation returned for the unconfigured portal
C10_Witness == saas_id = "slack" /\ Returned /\ action = "scrape"

-----------------------------------------------------------------------------
(* C11 *)

LoginFailed(e) == e.k = "login" /\ ~e.ok

\* C11: if authentication does not leave the login context or the login step
\* raises, the operation returns failure and performs no navigation,
\* snapshot, oracle call, act or persistence afterwards (the one call that
\* follows is the screenshot login_to_saas takes itself).
C11_LoginFailureStops ==
    \A i \in Idx :
        LoginFailed(calls[i]) =>
            /\ Returned
            /\ result = Failure
            /\ users = <<>>
            /\ \A j \in Idx : j > i =>
                  calls[j].k \notin {"navigate", "snapshot", "oracle", "click",
                                     "fill", "save_json", "save_csv"}

\* a scrape returned after a login that stayed on the login page
C11_Witness ==
    /\ Returned
    /\ action = "scrape"
    /\ \E i \in Idx : LoginFailed(calls[i]) /\ calls[i].resp = "still_login"

-----------------------------------------------------------------------------
(* C12 *)

HasAt(text) == \E i \in 1..Len(text) : text[i] = "@"
HasNonSpace(text) == \E i \in 1..Len(text) : text[i] \notin {" ", "\n", "\t"}

\* a raw entry whose email is a string that is not blank and holds an "@"
ValidEntry(e) == e.ek = "str" /\ HasNonSpace(e.ev) /\ HasAt(e.ev)

ExtractCalled == \E i \in Idx : calls[i].k = "oracle" /\ calls[i].task = "extract"

\* the oracle returned no entry, or none with a valid email
NoValidEntry == \A i \in 1..Len(raw_users) : ~ValidEntry(raw_users[i])

\* C12: scrape_users ends in failure whenever the extraction yields zero
\* valid records from a non-empty snapshot (no entries, or every entry
\* discarded): it returns the empty list and main never reports the run as a
\* successful enumeration.
C12_ZeroRecordsIsFailure ==
    action = "scrape" /\ ExtractCalled /\ NoValidEntry =>
        /\ pc = "returned"
        /\ result = "[]"
        /\ users = <<>>
        /\ printed \in {"none", "scrape_failed"}

\* main reported the failure of a scrape whose entries were all discarded
C12_Witness ==
    /\ ExtractCalled
    /\ raw_users # <<>>
    /\ NoValidEntry
    /\ printed = "scrape_failed"

-----------------------------------------------------------------------------
(* C13 *)

\* the oracle returned no confirmation control
NoConfirm(e) == NoPrimary(e) /\ e.task = "confirm"

\* the flag the validator returned, as the value the workflow returns
ValidatorFlag == IF calls[Len(calls)].ok THEN "True" ELSE "False"

\* C13: in Remove, when the oracle returns no confirmation control the
\* workflow does not abort: no confirmation click is made, the settle wait
\* comes next, then the after-snapshot and the validator, whose flag is
\* returned.
C13_NoConfirmationGoesOn ==
    \A i \in Idx :
        NoConfirm(calls[i]) =>
            /\ pc \in {"d_settle", "d_after", "d_validate", "returned"}
            /\ \A j \in Idx : ~(calls[j].k = "click" /\ calls[j].task = "confirm")
            /\ i < Len(calls) => calls[i+1].k = "sleep"
            /\ Returned => /\ ValidatedAfter(i)
                           /\ ValidatorAt(Len(calls))
                           /\ result = ValidatorFlag

\* Remove returned True although no confirmation control was found
C13_Witness ==
    /\ Returned
    /\ result = "True"
    /\ \E i \in Idx : NoConfirm(calls[i]) /\ calls[i].resp = "noprimary"

-----------------------------------------------------------------------------
(* C14 *)

\* some call before j satisfies P
Earlier(j, P(_)) == \E i \in 1..(j-1) : P(calls[i])

LoginOk(e) == e.k = "login" /\ e.ok
NavigateOk(e) == e.k = "navigate" /\ e.ok

\* C14: the steps come in the order of the states Init, Authenticated,
\* OnTargetPage, ActionAttempted, Validated: no navigation before a
\* successful login, no snapshot, oracle call or act before a successful
\* navigation, and the validator only after an act was attempted.
C14_StateOrder ==
    \A j \in Idx :
        /\ calls[j].k = "login" => j = 1
        /\ calls[j].k = "navigate" => Earlier(j, LoginOk)
        /\ calls[j].k \in {"snapshot", "oracle", "click", "fill"} =>
              Earlier(j, NavigateOk)
        /\ ValidatorAt(j) => Earlier(j, IsAct)

\* Remove reached the validator
C14_Witness == action = "deprovision" /\ verdict.called /\ Returned

-----------------------------------------------------------------------------
(* C15 *)

\* the steps of the three workflows
WorkflowStep ==
    \/ CheckConfig \/ Login \/ Navigate
    \/ ScrapeContent \/ ScrapeScreenshot \/ ScrapeExtract
    \/ ProvisionBefore \/ ProvisionAddStatic \/ ProvisionFallbackPage
    \/ ProvisionFallbackOracle \/ ProvisionFallbackClick \/ ProvisionSettleForm
    \/ ProvisionFill \/ ProvisionSubmitPage \/ ProvisionSubmitOracle
    \/ ProvisionSubmitClick \/ ProvisionSettle \/ ProvisionAfter
    \/ ProvisionValidate
    \/ DeprovisionBefore \/ DeprovisionRowOracle \/ DeprovisionRowClick
    \/ DeprovisionUpdatedPage \/ DeprovisionDeleteOracle
    \/ DeprovisionDeleteClick \/ DeprovisionSettleDialog
    \/ DeprovisionDialogPage \/ DeprovisionConfirmOracle
    \/ DeprovisionConfirmClick \/ DeprovisionSettle \/ DeprovisionAfter
    \/ DeprovisionValidate

\* the values a workflow hands to its caller
OutcomeValues == IF action = "scrape" THEN {"[]", "list"} ELSE {"True", "False"}

\* C15: no failure of a Page Driver or Oracle call leaves a workflow as an
\* uncaught fault: while the workflow runs it has either returned an outcome
\* value (a list or a boolean) or is at a step it goes on from.
C15_AlwaysAnOutcome ==
    Running =>
        IF Returned
        THEN result \in OutcomeValues
        ELSE result = "none" /\ ENABLED WorkflowStep

\* Remove returned False on the TypeError of a non-object oracle answer
C15_Witness ==
    /\ Returned
    /\ result = "False"
    /\ calls # <<>>
    /\ calls[Len(calls)].resp = "nonobject"
    /\ calls[Len(calls)].task = "row"

-----------------------------------------------------------------------------
(* C16 *)

\* extract_page_content failed and handed back the empty markup
FailedSnapshot(e) == e.k = "snapshot" /\ ~e.ok

\* oracle call j of Add or Remove was given an empty markup: a locator request
\* gets the snapshot taken just before it, the validator gets the before- and
\* the after-snapshot
GivenEmptyMarkup(j) ==
    /\ calls[j].k = "oracle"
    /\ \/ FailedSnapshot(calls[j-1])
       \/ ValidatorAt(j) /\ before_html = ""

\* C16: in Add and Remove a failed snapshot capture is that step's failure:
\* the operation aborts with False at the failed capture, and neither the
\* oracle resolver nor the validator is invoked with the empty markup.
C16_FailedSnapshotAborts ==
    action \in {"provision", "deprovision"} =>
        /\ \A i \in Idx :
              FailedSnapshot(calls[i]) =>
                  i = Len(calls) /\ Returned /\ result = "False"
        /\ \A j \in 2..Len(calls) : ~GivenEmptyMarkup(j)

-----------------------------------------------------------------------------
(* C17 *)

\* C17: no act is issued with a locator taken from an oracle response that
\* does not conform to the schema: every act on an oracle locator carries a
\* confidence inside [0,1].
C17_OnlyConformantLocatorsActed ==
    \A i \in Idx : IsOracleAct(calls[i]) => calls[i].conf \in 0..MaxConf

-----------------------------------------------------------------------------
(* C18 *)

\* the email of a record is the email of the entry without surrounding blanks
RecordOf(rec, e) == rec.email = Strip(e.ev)

\* C18: every record process_raw_user_data returns has a non-empty email
\* that contains "@", and comes from an entry with a valid email: an entry
\* whose email is missing, null, empty, blank or without "@" is not in the
\* output.
C18_RecordsHaveAtEmail ==
    \A k \in 1..Len(users) :
        /\ users[k].email # <<>>
        /\ HasAt(users[k].email)
        /\ \E i \in 1..Len(raw_users) :
              ValidEntry(raw_users[i]) /\ RecordOf(users[k], raw_users[i])

\* a list with an entry whose email lacks "@" gave fewer records than entries
C18_Witness ==
    /\ users # <<>>
    /\ Len(users) < Len(raw_users)
    /\ \E i \in 1..Len(raw_users) :
          raw_users[i].ek = "str" /\ HasNonSpace(raw_users[i].ev)
          /\ ~HasAt(raw_users[i].ev)

-----------------------------------------------------------------------------
(* C19 *)

\* exactly one "@", with a local part before it and a domain part after it
AddressStructure(text) ==
    /\ \E i \in 1..Len(text) :
          /\ text[i] = "@"
          /\ \A j \in 1..Len(text) : text[j] = "@" => j = i
    /\ text # <<>>
    /\ text[1] # "@"
    /\ text[Len(text)] # "@"

\* C19: every record the extraction returns has an email with the delimiter
\* structure of an address: exactly one "@", a non-empty local part and a
\* non-empty domain part.
C19_RecordsHaveAddressStructure ==
    \A k \in 1..Len(users) : AddressStructure(users[k].email)

-----------------------------------------------------------------------------
(* C20 *)

\* the positions of the entries with a valid email
ValidIdx == {i \in 1..Len(raw_users) : ValidEntry(raw_users[i])}

\* the position of the k-th entry with a valid email
NthValid(k) ==
    CHOOSE i \in ValidIdx : Cardinality({j \in ValidIdx : j <= i}) = k

\* C20: process_raw_user_data returns one record per entry with a valid
\* email, in the order of the input and with duplicates kept; an invalid
\* entry is dropped without failing the call, so N valid entries and any
\* number of invalid ones give exactly N records.
C20_OneRecordPerValidEntryInOrder ==
    /\ Len(users) = Cardinality(ValidIdx)
    /\ \A k \in 1..Len(users) : RecordOf(users[k], raw_users[NthValid(k)])
    /\ ExtractCalled /\ ValidIdx # {} => Returned /\ result = "list"

\* two entries with the same email and an invalid one gave two equal records
C20_Witness ==
    /\ Len(raw_users) = 3
    /\ Len(users) = 2
    /\ users[1] = users[2]
    /\ ~ValidEntry(raw_users[2])
    /\ raw_users[1] # raw_users[3]
    /\ result = "list"

-----------------------------------------------------------------------------
(* C21 *)

\* a string that is empty, "null" or whitespace only
BlankOrNull(v) ==
    v.kind = "str" /\ (v.text = NullText \/ \A i \in 1..Len(v.text) : IsSpace(v.text[i]))

\* C21: clean_text is idempotent, clean_text(clean_text(x)) = clean_text(x)
\* for every x, and clean_text of an empty, "null" or whitespace-only string
\* is absence.
C21_CleanTextIdempotent ==
    dp_op = "clean_text" /\ dp_out.done =>
        /\ clean_text(dp_out.val) = dp_out.val
        /\ BlankOrNull(dp_in) => dp_out.val = None

-----------------------------------------------------------------------------
(* C22 *)

OptionalFields == {"name", "role", "last_login", "status"}

\* C22: in every record process_raw_user_data returns, no optional field
\* holds the string "null", the empty string or a whitespace-only string.
C22_NoNullTextInRecords ==
    dp_op = "process_raw_user_data" /\ dp_out.done =>
        \A k \in 1..Len(dp_out.val) : \A f \in OptionalFields :
            ~BlankOrNull(dp_out.val[k][f])

-----------------------------------------------------------------------------
(* C23 *)

\* C23: for every list R of records and for both formats,
\* load_existing_data of what save_to_json / save_to_csv wrote equals R field
\* for field and in order: an absent field loads back as absent and a present
\* field as the same text, also when that text is the empty string or "None".
C23_SaveLoadRoundTrip ==
    dp_op \in {"save_to_json", "save_to_csv"} /\ dp_out.done =>
        dp_out.val = dp_in

-----------------------------------------------------------------------------
(* C24 *)

\* the emails of a dataset
Emails(recs) == {recs[i].email : i \in 1..Len(recs)}

\* C24: compare_datasets(A, B) reports added = emails(B) minus emails(A),
\* removed = emails(A) minus emails(B) and the number of common emails, with
\* duplicates counted once; compare_datasets(B, A) has added and removed
\* swapped and the same common count.
C24_CompareDatasets ==
    dp_op = "compare_datasets" /\ dp_out.done =>
        LET A == dp_in[1]
            B == dp_in[2]
            swapped == compare_datasets(B, A)
        IN  /\ \A e \in Emails(A) \cup Emails(B) :
                  /\ e \in dp_out.val.added_users <=> e \in Emails(B) /\ e \notin Emails(A)
                  /\ e \in dp_out.val.removed_users <=> e \in Emails(A) /\ e \notin Emails(B)
            /\ dp_out.val.added_users \subseteq Emails(B)
            /\ dp_out.val.removed_users \subseteq Emails(A)
            /\ dp_out.val.common_users_count =
                  Cardinality({e \in Emails(A) : e \in Emails(B)})
            /\ swapped.added_users = dp_out.val.removed_users
            /\ swapped.removed_users = dp_out.val.added_users
            /\ swapped.common_users_count = dp_out.val.common_users_count

\* a comparison of a dataset holding one email twice with a dataset that
\* holds it and a new one
C24_Witness ==
    /\ dp_op = "compare_datasets" /\ dp_out.done
    /\ Len(dp_in[1]) = 2 /\ dp_in[1][1] = dp_in[1][2]
    /\ dp_out.val.added_users # {}
    /\ dp_out.val.common_users_count = 1

-----------------------------------------------------------------------------
(* C25 *)

\* the caller gave a value for the field on the command line
Supplied(field) ==
    \/ field = "email" /\ user_email
    \/ field = "name" /\ user_name
    \/ field = "role" /\ user_role

\* the fields of the profile's field map
MapFields ==
    {SAAS_CONFIGS[saas_id].user_form_selectors[i] :
        i \in 1..Len(SAAS_CONFIGS[saas_id].user_form_selectors)}

\* the form was filled and the workflow went on
FormFilled ==
    pc \in {"p_submit_page", "p_submit_oracle", "p_submit_click", "p_settle",
            "p_after", "p_validate"}

\* C25: in Add a fill is issued for a field exactly when the field is in the
\* profile's field map and the caller supplied a value for it; a field that
\* was not supplied gets no fill and does not make the operation fail.
C25_FillsExactlySuppliedFields ==
    action = "provision" =>
        /\ \A i \in Idx :
              calls[i].k = "fill" =>
                 calls[i].task \in MapFields /\ Supplied(calls[i].task)
        /\ FormFilled =>
              \A f \in MapFields :
                 Supplied(f) => \E i \in Idx : calls[i].k = "fill" /\ calls[i].task = f

-----------------------------------------------------------------------------
(* C26 *)

\* C26: two instances run side by side share no mutable state: whatever
\* the interleaving, a file one instance wrote (screenshot, JSON or CSV
\* output) is never written over by the other.
C26_InstancesShareNothing ==
    [][\A f \in FileNames : files[f].by # 0 => files'[f].by = files[f].by]_vars

-----------------------------------------------------------------------------
(* C27 *)

\* C27: every Page Driver call and every Oracle call is a suspend point:
\* while an instance waits for the answer of such a call, another instance
\* that has not finished is able to take a step.
C27_EveryCallSuspends ==
    \A p, q \in DOMAIN inst :
        p # q /\ inst[p].wait # "no" /\ inst[q].pc # "done" => ENABLED InstStep(q)

-----------------------------------------------------------------------------
(* C28 *)

\* what the Action Validator hands back for the oracle's outcome o: the bare
\* boolean of ai_agent.py 250 and 254, nothing else
ActionOutcome(o) == [success |-> validate_action_success(o)]

\* C28: the Action Validator's result carries a confidence that is one fixed
\* nominal value whenever the oracle call succeeds and zero whenever it
\* fails, whatever the oracle answered.
C28_ValidatorConfidence ==
    verdict.called =>
        \E nominal \in 1..MaxConf :
            \A o \in ValidateOutcomes :
                LET outcome == ActionOutcome(o) IN
                /\ "confidence" \in DOMAIN outcome
                /\ outcome.confidence = IF o.fail THEN 0 ELSE nominal

-----------------------------------------------------------------------------
(* C29 *)

\* the steps of main that the program takes of its own
ProgramStep ==
    \/ MainInitialize \/ MainDispatch \/ MainReport \/ MainCleanup
    \/ WorkflowStep

\* every Page Driver and Oracle call returns and the program goes on; a
\* cancellation of main (MainRaise) may happen but need not
LiveSpec == Init /\ [][Next]_vars /\ WF_vars(ProgramStep)

\* C29: every run of scrape_users, provision_user and deprovision_user
\* eventually ends, in exactly one terminal state (Complete or Aborted), and
\* reports exactly one success/failure signal: once returned the workflow
\* stays returned and its result never changes.
C29_TerminatesWithOneSignal ==
    /\ (pc = "check") ~> (Returned \/ raised)
    /\ [](Returned <=> result # "none")
    /\ [](Returned => result \in OutcomeValues)
    /\ [][result # "none" => result' = result /\ pc' = pc]_vars

\* a workflow ended and main reported its one signal
C29_Witness ==
    /\ Returned
    /\ Len(calls) > 3
    /\ printed \in {"provision_ok", "provision_failed", "deprovision_ok",
                    "deprovision_failed", "scrape_ok", "scrape_failed"}

-----------------------------------------------------------------------------
(* C30 *)

BeforeSnapshotAt(b) == calls[b].k = "snapshot" /\ calls[b].task = "before"

\* C30: in Add and Remove the validator is invoked with a before-snapshot
\* captured after navigation and before the first mutating act, and an
\* after-snapshot captured after the last mutating act and after the settle
\* wait that follows it; no mutating act lies between the after-snapshot and
\* the validator call.
C30_SnapshotsBracketTheActs ==
    \A k \in Idx :
        ValidatorAt(k) =>
            /\ \E b \in 1..(k-1) :
                  /\ BeforeSnapshotAt(b)
                  /\ Earlier(b, NavigateOk)
                  /\ \A i \in 1..(b-1) : ~IsAct(calls[i])
                  /\ before_html = (IF calls[b].ok THEN "html" ELSE "")
            /\ k > 3
            /\ AfterSnapshotAt(k-1)
            /\ calls[k-2].k = "sleep"
            /\ \E i \in 1..(k-3) : IsAct(calls[i])
            /\ \A i \in Idx : IsAct(calls[i]) => i < k - 2

\* Add reached the validator
C30_Witness == action = "provision" /\ verdict.called /\ Returned

-----------------------------------------------------------------------------
(* C31 *)

ReleaseAttempted(r) == \E i \in 1..Len(released) : released[i].res = r

\* C31: once cleanup has returned, the release of every resource that was
\* opened (page, context, browser, driver) has been attempted, also when the
\* release of an earlier one failed
C31_EveryOpenedResourceReleased ==
    mpc = "exit" =>
        \A r \in ResourceSet : handler[r] # "None" => ReleaseAttempted(r)

-----------------------------------------------------------------------------
(* C32 *)

IsSave(e) == e.k \in {"save_json", "save_csv"}

\* C32: a run of scrape_users that returns the empty list has written nothing
\* to the Data Sink: no save_to_json and no save_to_csv was issued in it
C32_FailedScrapeWritesNothing ==
    (action = "scrape" /\ Returned /\ users = <<>>) =>
        \A i \in Idx : ~IsSave(calls[i])

-----------------------------------------------------------------------------
(* C33 *)

\* the Oracle calls of the run so far
OracleCalls == Cardinality({i \in Idx : calls[i].k = "oracle"})

OracleBudget == CASE action = "scrape" -> 1
                  [] action = "provision" -> 3
                  [] action = "deprovision" -> 4

\* C33: a run makes at most 1 Oracle call for Enumerate, at most 3 for Add and
\* at most 4 for Remove; every act on an oracle locator follows the oracle
\* call that returned it, and no second act is made on the locator of the
\* same call
C33_OracleCallsBounded ==
    /\ OracleCalls <= OracleBudget
    /\ \A j \in Idx :
          IsOracleAct(calls[j]) =>
             /\ \E i \in 1..(j - 1) :
                   IsFind(calls[i]) /\ calls[i].task = calls[j].task
             /\ \A l \in (j + 1)..Len(calls) :
                   ~(IsOracleAct(calls[l]) /\ calls[l].task = calls[j].task)

\* Remove that asked the oracle for the row, the delete control, the
\* confirmation and the validation
C33_Witness == action = "deprovision" /\ Returned /\ OracleCalls = 4

-----------------------------------------------------------------------------
(* C34 *)

\* the raw entry with every missing optional key present and null
Nulled(e) ==
    [f \in DOMAIN e |->
        IF f \in OptionalFields /\ e[f].kind = "missing" THEN None ELSE e[f]]

\* C34: process_raw_user_data returns the same records when the optional keys
\* missing from the raw entries are given with a null value instead, and a
\* field whose key is missing or null is absent in the record of its entry
C34_MissingIsNull ==
    dp_op = "process_raw_user_data" /\ dp_out.done =>
        /\ dp_out.val =
              process_raw_user_data([i \in 1..Len(dp_in) |-> Nulled(dp_in[i])])
        /\ \A i \in 1..Len(dp_in) :
              LET one == process_raw_user_data(<<dp_in[i]>>)
              IN  one # <<>> =>
                     \A f \in OptionalFields :
                        dp_in[i][f].kind \in {"missing", "none"} => one[1][f] = None

-----------------------------------------------------------------------------
(* C35 *)

RECURSIVE SumOf(_)
\* the sum of the counts of a breakdown
SumOf(counts) ==
    IF DOMAIN counts = {} THEN 0
    ELSE LET k == CHOOSE k \in DOMAIN counts : TRUE
         IN  counts[k] + SumOf([x \in DOMAIN counts \ {k} |-> counts[x]])

\* the field is absent, or empty, in some record of the list
SomeAbsent(records, field) ==
    \E i \in 1..Len(records) :
        records[i][field].kind = "none" \/ records[i][field].text = <<>>

\* C35: for a non-empty record list generate_report returns total_users equal
\* to the length of the list, unique_emails at most total_users, and by_saas,
\* by_role and by_status breakdowns whose counts each sum to total_users, the
\* absent values counted under "Unknown"; for the empty list it returns an
\* error value and no report
C35_ReportCounts ==
    dp_op = "generate_report" /\ dp_out.done =>
        IF dp_in = <<>>
        THEN DOMAIN dp_out.val = {"error"}
        ELSE /\ "error" \notin DOMAIN dp_out.val
             /\ dp_out.val.summary.total_users = Len(dp_in)
             /\ dp_out.val.summary.unique_emails <= Len(dp_in)
             /\ \A b \in {"by_saas", "by_role", "by_status"} :
                   SumOf(dp_out.val.breakdown[b]) = Len(dp_in)
             /\ SomeAbsent(dp_in, "source_saas") =>
                   UnknownText \in DOMAIN dp_out.val.breakdown.by_saas
             /\ SomeAbsent(dp_in, "role") =>
                   UnknownText \in DOMAIN dp_out.val.breakdown.by_role
             /\ SomeAbsent(dp_in, "status") =>
                   UnknownText \in DOMAIN dp_out.val.breakdown.by_status

\* a report over two records of one email and one role, the status of one of
\* them absent
C35_Witness ==
    /\ dp_op = "generate_report" /\ dp_out.done
    /\ Len(dp_in) = 2
    /\ dp_in[1].email = dp_in[2].email
    /\ dp_in[1].role = Str(<<"x">>) /\ dp_in[2].role = Str(<<"x">>)
    /\ dp_in[1].status = None /\ dp_in[2].status # None
    /\ dp_out.val.summary.unique_emails = 1

====
